---- MODULE Spec2Model ----
(***************************************************************************)
(* Model of wave/writer.go: the WAVE encoder.  A call of WriteWaveFile or  *)
(* WriteWaveToWriter is followed statement by statement: the encoding of   *)
(* the three chunks, the three writes on the sink, the return (or the      *)
(* panic) and the deferred close of the file.                              *)
(*                                                                         *)
(* Bytes are the integers 0..255.  A Frame (a float64) is the exact        *)
(* rational <<n, d>> = n/d; for the sample values used here the float64    *)
(* product with maxValues[bits] is exact (d is a power of two), so         *)
(* truncating the rational is what int() returns.  Frames outside          *)
(* [-1.0, 1.0] are left out: at 32 bits their product leaves the range of  *)
(* the model checker's integers.                                           *)
(***************************************************************************)
EXTENDS Integers, Sequences, FiniteSets

VARIABLES
    arg,        \* the (samples, wfmt) argument whose repeated encoding is compared
    pkg,        \* the package-level vars of lines 11-17 (Go vars, mutable)
    firstOut,   \* bytes the first successful encode of arg put into its sink
    between,    \* a call with another argument completed after that first encode
    pc,         \* position of the running call
    entry,      \* "file": WriteWaveFile, "writer": WriteWaveToWriter
    cur,        \* arguments of the running call
    file,       \* the *os.File of WriteWaveFile: "none", "open", "closed"
    enc,        \* locals hdr, wfb, databits, and the WaveData, of WriteWaveToWriter
    writes,     \* the Write calls made on the sink: buffer passed, error returned
    ret         \* what the call returned

vars == <<arg, pkg, firstOut, between, pc, entry, cur, file, enc, writes, ret>>

----------------------------------------------------------------------------
(* Bounds and input sets *)

MaxFrames == 2

MaxChannels == 2

None == "none"
Nil == "nil"
Panic == "panic: nil func call"
CreateErr == "create failed"
WriteErrs == {"EIO", "ENOSPC"}

Pow2(n) == 2 ^ n

RECURSIVE Flatten(_)
Flatten(ss) ==
    IF ss = <<>> THEN <<>> ELSE Head(ss) \o Flatten(Tail(ss))

\* Frame values n/d: -1.0, -0.5, 0.25, 1.0
FrameValues == {<<-1, 1>>, <<-1, 2>>, <<1, 4>>, <<1, 1>>}

InRange(s) == -s[2] <= s[1] /\ s[1] <= s[2]

FrameSeqs == UNION {[1..n -> FrameValues] : n \in 0..MaxFrames}

\* Consts that appear in the .WAVE file format
ChunkID == <<82, 73, 70, 70>>
WaveID == <<87, 65, 86, 69>>
Format == <<102, 109, 116, 32>>
Subchunk2ID == <<100, 97, 116, 97>>

PkgVars == [ChunkID |-> ChunkID, WaveID |-> WaveID, Subchunk2ID |-> Subchunk2ID]

\* WaveFmt values a caller can pass: the tag set (NewWaveFmt, a parsed file)
\* or left at its zero value (a struct literal); ByteRate and BlockAlign as
\* the caller derived them.
WaveFmts ==
    {[Subchunk1ID |-> id, Subchunk1Size |-> 16, AudioFormat |-> 1,
      NumChannels |-> ch, SampleRate |-> 44100,
      ByteRate |-> (44100 * ch * bits) \div 8,
      BlockAlign |-> (ch * bits) \div 8,
      BitsPerSample |-> bits] :
        id \in {Format, <<>>}, ch \in 1..MaxChannels, bits \in {8, 16, 32}}

Args == [samples : FrameSeqs, wfmt : WaveFmts]

MkFmt(id, ch, bits) ==
    [Subchunk1ID |-> id, Subchunk1Size |-> 16, AudioFormat |-> 1,
     NumChannels |-> ch, SampleRate |-> 44100,
     ByteRate |-> (44100 * ch * bits) \div 8,
     BlockAlign |-> (ch * bits) \div 8,
     BitsPerSample |-> bits]

\* Calls with other arguments that may run before or between the encodes of arg
Others ==
    {[samples |-> <<<<1, 1>>>>, wfmt |-> MkFmt(Format, 1, 16)],
     [samples |-> <<<<-1, 2>>>>, wfmt |-> MkFmt(Format, 2, 8)]}

----------------------------------------------------------------------------
(* The encoder's functions *)

\* uintN(i) followed by binary.LittleEndian.AppendUintN: the low n bytes of the
\* two's complement of i, lowest first (\div rounds down, % is never negative)
LittleEndian(i, n) == [k \in 1..n |-> (i \div Pow2(8 * (k - 1))) % 256]

\* mutant: binary.BigEndian in place of binary.LittleEndian
appendInt16BigEndian(b, i) ==
    b \o [k \in 1..2 |-> LittleEndian(i, 2)[3 - k]]

appendInt16(b, i) == b \o LittleEndian(i, 2)

appendInt32(b, i) == b \o LittleEndian(i, 4)

\* keys of the map appendIntFm
appendIntFmKeys == {16, 32}

\* mutant: both keys of the map bound to appendInt16
appendIntFmBoth16(bits, b, i) == appendInt16(b, i)

appendIntFm(bits, b, i) ==
    IF bits = 16 THEN appendInt16(b, i) ELSE appendInt32(b, i)

maxValues(bits) ==
    CASE bits = 8 -> 127
      [] bits = 16 -> 32767
      [] bits = 32 -> 2147483647

\* mutant: rounding down (math.Floor) in place of the conversion's truncation
rescaleFrameFloor(s, bits) == (s[1] * maxValues(bits)) \div s[2]

rescaleFrame(s, bits) ==
    LET p == s[1] * maxValues(bits)
    IN  IF p >= 0 THEN p \div s[2] ELSE -((-p) \div s[2])

RECURSIVE samplesToRawDataFrom(_, _, _)
samplesToRawDataFrom(raw, samples, props) ==
    IF samples = <<>> THEN raw
    ELSE samplesToRawDataFrom(
             appendIntFm(props.BitsPerSample, raw,
                         rescaleFrame(Head(samples), props.BitsPerSample)),
             Tail(samples), props)

samplesToRawData(samples, props) == samplesToRawDataFrom(<<>>, samples, props)

\* calling the nil func that appendIntFm yields for a missing key panics
samplesToRawDataPanics(samples, props) ==
    samples # <<>> /\ props.BitsPerSample \notin appendIntFmKeys

framesToData(frames, wfmt) ==
    LET raw == samplesToRawData(frames, wfmt)
        subchunksize == (Len(frames) * wfmt.NumChannels * wfmt.BitsPerSample) \div 8
    IN  [wd |-> [Subchunk2ID |-> pkg.Subchunk2ID, Subchunk2Size |-> subchunksize,
                 RawData |-> raw, Frames |-> frames],
         b |-> appendInt32(pkg.Subchunk2ID, subchunksize) \o raw]

\* mutant: BlockAlign and BitsPerSample appended in the other order
fmtToBytesSwapped(wfmt) ==
    appendInt16(
      appendInt16(
        appendInt32(
          appendInt32(
            appendInt16(
              appendInt16(
                appendInt32(wfmt.Subchunk1ID, wfmt.Subchunk1Size),
                wfmt.AudioFormat),
              wfmt.NumChannels),
            wfmt.SampleRate),
          wfmt.ByteRate),
        wfmt.BitsPerSample),
      wfmt.BlockAlign)

\* the appends of lines 145-152, onto the empty b of line 143; the tag is the
\* descriptor's Subchunk1ID
fmtToBytes(wfmt) ==
    appendInt16(
      appendInt16(
        appendInt32(
          appendInt32(
            appendInt16(
              appendInt16(
                appendInt32(wfmt.Subchunk1ID, wfmt.Subchunk1Size),
                wfmt.AudioFormat),
              wfmt.NumChannels),
            wfmt.SampleRate),
          wfmt.ByteRate),
        wfmt.BlockAlign),
      wfmt.BitsPerSample)

\* mutant: the chunk size taken from the packed buffer's length
createHeaderMeasured(wd) ==
    LET chunksize == 36 + Len(wd.RawData)
    IN  appendInt32(pkg.ChunkID, chunksize) \o pkg.WaveID

createHeader(wd) ==
    LET chunksize == 36 + wd.Subchunk2Size
    IN  appendInt32(pkg.ChunkID, chunksize) \o pkg.WaveID

\* mutant: the data chunk built in place in the package-level slice
PkgAfterEncodeShared(p) == [p EXCEPT !.Subchunk2ID = enc'.databits]

\* lines 48-50 assign no package-level var: the slices built are fresh
PkgAfterEncode(p) == p

NoEnc == [hdr |-> <<>>, wfb |-> <<>>, databits |-> <<>>, raw |-> <<>>]

\* the bytes the sink accepted
Output == Flatten([k \in 1..Len(writes) |->
                     IF writes[k].err = Nil THEN writes[k].buf ELSE <<>>])

----------------------------------------------------------------------------
(* The calls *)

Init ==
    /\ arg \in Args
    /\ pkg = PkgVars
    /\ firstOut = None
    /\ between = FALSE
    /\ pc = "idle"
    /\ entry = None
    /\ cur = arg
    /\ file = "none"
    /\ enc = NoEnc
    /\ writes = <<>>
    /\ ret = None

CanCall == pc \in {"idle", "done"}

\* WriteWaveToWriter is entered with a caller's writer
WriteWaveToWriterCall ==
    /\ CanCall
    /\ \E a \in {arg} \cup Others :
        /\ cur' = a
        /\ entry' = "writer"
        /\ file' = "none"
        /\ pc' = "encode"
        /\ enc' = NoEnc
        /\ writes' = <<>>
        /\ ret' = None
    /\ UNCHANGED <<arg, pkg, firstOut, between>>

\* WriteWaveFile, lines 38-42: os.Create, its error returned, the close deferred
WriteWaveFile ==
    /\ CanCall
    /\ \E a \in {arg} \cup Others, created \in BOOLEAN :
        /\ cur' = a
        /\ entry' = "file"
        /\ enc' = NoEnc
        /\ writes' = <<>>
        /\ IF created
           THEN file' = "open" /\ pc' = "encode" /\ ret' = None
           ELSE file' = "none" /\ pc' = "done" /\ ret' = CreateErr
    /\ UNCHANGED <<arg, pkg, firstOut, between>>

\* lines 48-50: fmtToBytes, framesToData, createHeader
Encode ==
    /\ pc = "encode"
    /\ IF samplesToRawDataPanics(cur.samples, cur.wfmt)
       THEN /\ pc' = "exit"
            /\ ret' = Panic
            /\ UNCHANGED <<enc, pkg>>
       ELSE LET d == framesToData(cur.samples, cur.wfmt)
            IN  /\ enc' = [hdr |-> createHeader(d.wd),
                           wfb |-> fmtToBytes(cur.wfmt),
                           databits |-> d.b,
                           raw |-> d.wd.RawData]
                /\ pkg' = PkgAfterEncode(pkg)
                /\ pc' = "hdr"
                /\ UNCHANGED ret
    /\ UNCHANGED <<arg, firstOut, between, entry, cur, file, writes>>

\* mutant: the error of a write is dropped
AfterWriteSwallowed(err, next) ==
    IF next = "exit" THEN [pc |-> "exit", ret |-> Nil]
    ELSE [pc |-> next, ret |-> None]

\* where a write's error sends the call: [pc, ret]
AfterWrite(err, next) ==
    IF err # Nil THEN [pc |-> "exit", ret |-> err]
    ELSE IF next = "exit" THEN [pc |-> "exit", ret |-> Nil]
    ELSE [pc |-> next, ret |-> None]

Write(at, buf, next) ==
    /\ pc = at
    /\ \E err \in {Nil} \cup WriteErrs :
        /\ writes' = Append(writes, [buf |-> buf, err |-> err])
        /\ pc' = AfterWrite(err, next).pc
        /\ ret' = AfterWrite(err, next).ret
    /\ UNCHANGED <<arg, pkg, firstOut, between, entry, cur, file, enc>>

\* lines 52-55
WriteHdr == Write("hdr", enc.hdr, "fmt")

\* lines 56-59
WriteFmt == Write("fmt", enc.wfb, "data")

\* lines 60-65
WriteData == Write("data", enc.databits, "exit")

\* mutant: f.Close() called after WriteWaveToWriter returns, not deferred
FileAfterExitNoDefer(f, how) == IF how = Panic THEN f ELSE "closed"

\* the deferred f.Close() runs when WriteWaveFile returns and when it unwinds
FileAfterExit(f, how) == "closed"

\* the call returns, or its panic leaves the function
Exit ==
    /\ pc = "exit"
    /\ pc' = "done"
    /\ file' = IF entry = "file" THEN FileAfterExit(file, ret) ELSE file
    /\ firstOut' = IF ret = Nil /\ cur = arg /\ firstOut = None
                   THEN Output ELSE firstOut
    /\ between' = (between \/ (firstOut # None /\ cur # arg))
    /\ UNCHANGED <<arg, pkg, entry, cur, enc, writes, ret>>

Next ==
    \/ WriteWaveToWriterCall
    \/ WriteWaveFile
    \/ Encode
    \/ WriteHdr
    \/ WriteFmt
    \/ WriteData
    \/ Exit

Spec == Init /\ [][Next]_vars

----------------------------------------------------------------------------
(* Reading the output back *)

\* the unsigned value of a 2- or 4-byte little-endian field
LEValue(bs) ==
    IF Len(bs) = 2 THEN bs[1] + 256 * bs[2]
    ELSE bs[1] + 256 * bs[2] + 65536 * bs[3] + 16777216 * bs[4]

\* the two's-complement value of a 2- or 4-byte little-endian field
SignedLEValue(bs) ==
    LET n == Len(bs)
        top == bs[n]
    IN  LEValue([bs EXCEPT ![n] = 0])
          + (IF top >= 128 THEN top - 256 ELSE top) * Pow2(8 * (n - 1))

Field(bs, off, n) == SubSeq(bs, off + 1, off + n)

Abs(x) == IF x < 0 THEN -x ELSE x

SupportedDepth == cur.wfmt.BitsPerSample \in {16, 32}

\* lines 48-50 have run to their end in the running call
Encoded == pc \in {"hdr", "fmt", "data"} \/ (pc \in {"exit", "done"} /\ writes # <<>>)

\* WriteWaveToWriter returned nil
Succeeded == pc = "done" /\ ret = Nil

----------------------------------------------------------------------------
(* C1 *)

\* C1: after every successful WriteWaveToWriter call with a supported bit depth,
\* the 4-byte little-endian size field that follows the "data" tag equals the
\* number of PCM bytes that follow it in the output.
C1_DataSizeIsPayloadLength ==
    (Succeeded /\ SupportedDepth) =>
        LET d == writes[3].buf
        IN  /\ Field(d, 0, 4) = Subchunk2ID
            /\ LEValue(Field(d, 4, 4)) = Len(d) - 8

----------------------------------------------------------------------------
(* C2 *)

\* C2: with BitsPerSample outside {16, 32} the call makes no Write on the sink
\* and does not return nil, whatever the samples (the empty sequence included).
C2_UnsupportedDepthWritesNothing ==
    (~SupportedDepth /\ ret # CreateErr /\ pc \notin {"idle", "encode"}) =>
        /\ writes = <<>>
        /\ ret # Nil

----------------------------------------------------------------------------
(* C3 *)

\* C3: the writes go to the sink in the order RIFF header, format chunk, data
\* chunk; no write follows a write that returned an error, that error is what
\* the call returns, and nil is returned only after three writes without error.
C3_WritesInOrderFirstErrorReturned ==
    LET expected == <<enc.hdr, enc.wfb, enc.databits>>
        n == Len(writes)
    IN  /\ n <= 3
        /\ \A k \in 1..n : writes[k].buf = expected[k]
        /\ n >= 1 => Field(writes[1].buf, 0, 4) = ChunkID
        /\ n >= 3 => Field(writes[3].buf, 0, 4) = Subchunk2ID
        /\ \A k \in 1..(n - 1) : writes[k].err = Nil
        /\ (n >= 1 /\ writes[n].err # Nil) => (pc \in {"exit", "done"} /\ ret = writes[n].err)
        /\ ret = Nil => (n = 3 /\ \A k \in 1..3 : writes[k].err = Nil)
        /\ (pc = "done" /\ ret \notin {Panic, CreateErr}) =>
               (ret = Nil \/ (n >= 1 /\ ret = writes[n].err))

\* the second write failed: the call ended there and returned that error
C3_Witness ==
    /\ pc = "done"
    /\ Len(writes) = 2
    /\ writes[2].err = "ENOSPC"
    /\ ret = "ENOSPC"

----------------------------------------------------------------------------
(* C4 *)

\* C4: in every generated file the 4-byte little-endian field at offset 4 equals
\* 36 plus the value of the data subchunk size field.
C4_RiffSizeIs36PlusDataSize ==
    Succeeded =>
        LEValue(Field(Output, 4, 4)) = 36 + LEValue(Field(writes[3].buf, 4, 4))

\* a generated stereo file with two frames
C4_Witness ==
    /\ Succeeded
    /\ cur.wfmt.NumChannels = 2
    /\ Len(cur.samples) = 2
    /\ SupportedDepth

----------------------------------------------------------------------------
(* C5 *)

\* C5: once os.Create succeeded, the file is closed when WriteWaveFile has
\* returned or unwound, on every exit path; it is never left open.
C5_FileClosedOnEveryExit ==
    (pc = "done" /\ entry = "file") =>
        /\ file # "open"
        /\ ret # CreateErr => file = "closed"

\* WriteWaveFile unwound by the panic of an unsupported bit depth
C5_Witness ==
    /\ pc = "done"
    /\ entry = "file"
    /\ ret = Panic
    /\ file = "closed"

----------------------------------------------------------------------------
(* C6 *)

\* C6 as stated: for every format descriptor the format chunk is exactly 24
\* bytes, the tag "fmt " and then Subchunk1Size (4), AudioFormat (2),
\* NumChannels (2), SampleRate (4), ByteRate (4), BlockAlign (2), BitsPerSample
\* (2), little-endian and equal to the descriptor's values, so that the "data"
\* tag is at output offset 36.
C6_FormatChunkIs24BytesWithFmtTag ==
    Encoded =>
        LET w == enc.wfb
            f == cur.wfmt
        IN  /\ Len(w) = 24
            /\ Field(w, 0, 4) = Format
            /\ LEValue(Field(w, 4, 4)) = f.Subchunk1Size
            /\ LEValue(Field(w, 8, 2)) = f.AudioFormat
            /\ LEValue(Field(w, 10, 2)) = f.NumChannels
            /\ LEValue(Field(w, 12, 4)) = f.SampleRate
            /\ LEValue(Field(w, 16, 4)) = f.ByteRate
            /\ LEValue(Field(w, 20, 2)) = f.BlockAlign
            /\ LEValue(Field(w, 22, 2)) = f.BitsPerSample
            /\ Succeeded => Field(Output, 36, 4) = Subchunk2ID

\* C6 as amended: the format chunk is the descriptor's Subchunk1ID followed by
\* those seven fields (20 bytes) in that order, little-endian and equal to the
\* descriptor's values; when Subchunk1ID is the 4-byte tag "fmt " the chunk is
\* exactly 24 bytes, begins with "fmt ", and the "data" tag is at offset 36.
C6_FormatChunkLayout ==
    Encoded =>
        LET w == enc.wfb
            f == cur.wfmt
            L == Len(f.Subchunk1ID)
        IN  /\ Len(w) = L + 20
            /\ Field(w, 0, L) = f.Subchunk1ID
            /\ LEValue(Field(w, L, 4)) = f.Subchunk1Size
            /\ LEValue(Field(w, L + 4, 2)) = f.AudioFormat
            /\ LEValue(Field(w, L + 6, 2)) = f.NumChannels
            /\ LEValue(Field(w, L + 8, 4)) = f.SampleRate
            /\ LEValue(Field(w, L + 12, 4)) = f.ByteRate
            /\ LEValue(Field(w, L + 16, 2)) = f.BlockAlign
            /\ LEValue(Field(w, L + 18, 2)) = f.BitsPerSample
            /\ f.Subchunk1ID = Format =>
                   /\ Len(w) = 24
                   /\ Field(w, 0, 4) = <<102, 109, 116, 32>>
                   /\ Succeeded => Field(Output, 36, 4) = Subchunk2ID

\* a stereo file written in full from a descriptor that carries the "fmt " tag
C6_Witness ==
    /\ Succeeded
    /\ cur.wfmt.Subchunk1ID = Format
    /\ cur.wfmt.NumChannels = 2
    /\ cur.wfmt.BitsPerSample = 32

----------------------------------------------------------------------------
(* C7 *)

BytesPerSample == cur.wfmt.BitsPerSample \div 8

OneMonoFullScaleFrame ==
    /\ cur.samples = <<<<1, 1>>>>
    /\ cur.wfmt.NumChannels = 1
    /\ cur.wfmt.BitsPerSample = 16

\* C7 as stated: a successful encode with a supported bit depth writes
\* 44 + numSamples x (BitsPerSample / 8) bytes; zero frames give data size 0 and
\* 44 bytes; one mono 16-bit frame of 1.0 gives 46 bytes ending in 32767
\* little-endian.
C7_TotalIs44PlusPayload ==
    (Succeeded /\ SupportedDepth) =>
        /\ Len(Output) = 44 + Len(cur.samples) * BytesPerSample
        /\ cur.samples = <<>> =>
               (LEValue(Field(writes[3].buf, 4, 4)) = 0 /\ Len(Output) = 44)
        /\ OneMonoFullScaleFrame =>
               (Len(Output) = 46 /\ Field(Output, 44, 2) = <<255, 127>>)

\* C7 as amended: the total is 40 + len(Subchunk1ID) + numSamples x
\* (BitsPerSample / 8), that is 44 + numSamples x (BitsPerSample / 8) for a
\* descriptor carrying the 4-byte "fmt " tag; with that tag zero frames give data
\* size 0 and 44 bytes, and one mono 16-bit frame of 1.0 gives 46 bytes whose
\* last two are 32767 little-endian.
C7_TotalIs40PlusTagPlusPayload ==
    (Succeeded /\ SupportedDepth) =>
        LET L == Len(cur.wfmt.Subchunk1ID)
            n == Len(cur.samples)
        IN  /\ Len(Output) = 40 + L + n * BytesPerSample
            /\ cur.samples = <<>> => LEValue(Field(writes[3].buf, 4, 4)) = 0
            /\ cur.wfmt.Subchunk1ID = Format =>
                   /\ Len(Output) = 44 + n * BytesPerSample
                   /\ cur.samples = <<>> => Len(Output) = 44
                   /\ OneMonoFullScaleFrame =>
                          (Len(Output) = 46 /\ Field(Output, 44, 2) = <<255, 127>>)

\* one mono 16-bit frame of 1.0 written in full with the "fmt " tag
C7_Witness ==
    /\ Succeeded
    /\ OneMonoFullScaleFrame
    /\ cur.wfmt.Subchunk1ID = Format
    /\ Len(Output) = 46

----------------------------------------------------------------------------
(* C8 *)

\* C8: a successful encode of arg puts into its sink the same bytes as the first
\* successful encode of arg did, whatever calls ran before or between the two.
C8_SameArgumentsSameBytes ==
    (Succeeded /\ cur = arg /\ firstOut # None) => Output = firstOut

\* arg encoded again after a call with another argument completed in between
C8_Witness ==
    /\ Succeeded
    /\ cur = arg
    /\ between
    /\ cur.samples # <<>>

----------------------------------------------------------------------------
(* C9 *)

\* C9: for BitsPerSample in {16, 32} the PCM buffer is numSamples x
\* (BitsPerSample / 8) bytes long and its i-th group of BitsPerSample / 8 bytes
\* is the little-endian two's complement of the rescaled i-th sample.
C9_PcmBufferIsPackedSamples ==
    (Encoded /\ SupportedDepth) =>
        LET w == BytesPerSample
            n == Len(cur.samples)
        IN  /\ Len(enc.raw) = n * w
            /\ \A i \in 1..n :
                   SignedLEValue(Field(enc.raw, (i - 1) * w, w))
                       = rescaleFrame(cur.samples[i], cur.wfmt.BitsPerSample)

\* two 16-bit samples packed, the first negative
C9_Witness ==
    /\ Encoded
    /\ cur.wfmt.BitsPerSample = 16
    /\ cur.samples = <<<<-1, 2>>, <<1, 4>>>>
    /\ enc.raw = <<1, 192, 255, 31>>

----------------------------------------------------------------------------
(* C10 *)

\* the maximum positive signed b-bit value, 2^(b-1) - 1
SignedMax(b) == (Pow2(b - 2) - 1) * 2 + 1

\* C10: for b in {16, 32} and a sample s in [-1.0, 1.0], rescaleFrame(s, b) is
\* s x (2^(b-1) - 1) truncated toward zero; its magnitude never exceeds
\* 2^(b-1) - 1, rescaleFrame(-1.0, b) is -(2^(b-1) - 1), and the b-bit packing
\* of the result reads back as the result.
C10_RescaleTruncatesWithinRange ==
    (Encoded /\ SupportedDepth) =>
        \A i \in 1..Len(cur.samples) :
            LET s == cur.samples[i]
                b == cur.wfmt.BitsPerSample
                r == rescaleFrame(s, b)
                M == SignedMax(b)
            IN  InRange(s) =>
                    /\ Abs(r) <= M
                    /\ Abs(r) = (Abs(s[1]) * M) \div s[2]
                    /\ r * s[1] >= 0
                    /\ s = <<-1, 1>> => r = -M
                    /\ SignedLEValue(appendIntFm(b, <<>>, r)) = r

\* -1.0 and -0.5 rescaled to 32 bits
C10_Witness ==
    /\ Encoded
    /\ cur.wfmt.BitsPerSample = 32
    /\ cur.samples = <<<<-1, 1>>, <<-1, 2>>>>
    /\ rescaleFrame(<<-1, 2>>, 32) = -1073741823

====
